---- MODULE Spec2Model ----
(***************************************************************************)
(* Model of the barbershop booking agent (src/apibeuot.py): the in-memory  *)
(* slot inventory and booking store, the chat handler that reserves slots  *)
(* from the LLM's reply, the booking and slot maintenance endpoints, and   *)
(* the Klarna payment endpoints.                                           *)
(*                                                                         *)
(* Every endpoint is an `async def` that runs on the single event loop of  *)
(* the process.  A handler gives up the loop only at an `await`; the only  *)
(* `await` of the file is `await request.json()` in klarna_push.  Spec     *)
(* therefore takes each handler as one step.  SpecConc splits the chat     *)
(* handler into its statements and lets the event loop schedule two chat   *)
(* requests that are in flight at the same time.                           *)
(***************************************************************************)
EXTENDS Integers, Sequences, FiniteSets, TLC

VARIABLES
    available_slots,       \* dict: date -> list of free times      (l.64)
    bookings,              \* dict: booking id -> {booking, status} (l.68)
    conversation_history,  \* list of {role, content}               (l.145)
    uuid_count,            \* how many uuid4() values were drawn for bookings
    response,              \* what the last handler returned to its caller
    tasks,                 \* SpecConc: the chat requests in flight
    loop                   \* SpecConc: the task that holds the event loop, 0 = idle

vars == <<available_slots, bookings, conversation_history, uuid_count,
          response, tasks, loop>>

----------------------------------------------------------------------------
(* Bounds of the model *)

\* the chat endpoint is closed once the log could exceed this many turns
MaxHistory == 4
\* confirm and cancel are called with the identifiers 1..MaxBookingId
MaxBookingId == 3

----------------------------------------------------------------------------
(* Values *)

\* Python's None (a missing dict key read with .get, a missing query parameter)
None == "<None>"
\* a key that a JSON object does not have
Absent == "<absent>"

\* The dates and times the requests of the model mention: "2025-09-13" is a
\* date of the seed catalogue with "10:00" free, "2025-09-15" is a date the
\* catalogue does not have.
InDates == {"2025-09-13", "2025-09-15"}
InTimes == {"10:00"}

\* The order ids the payment provider issues (response.json()["order_id"]).
OrderIds == {"K1"}

\* A JSON object of the LLM: the four keys of the prompt, each present with a
\* string value or Absent.
NoJson == [service |-> Absent, customer_name |-> Absent, date |-> Absent, time |-> Absent]
Intent(name, date_str, time) ==
    [service |-> "Haircut", customer_name |-> name, date |-> date_str, time |-> time]
\* objects with the three keys the handler reads (one with an empty name)
FullIntents ==
    { Intent("Anna", d, t) : d \in InDates, t \in InTimes }
        \cup { Intent("", "2025-09-13", "10:00") }
\* an object that lacks a key the handler reads
PartialIntents == { Intent("Anna", "2025-09-13", Absent) }

\* A text is modelled by what the handler reads of it: whether the regular
\* expression \{.*\} finds a brace pair in it ("json", "malformed") or not
\* ("hi", "book", "prose"), and the object json.loads makes of the match.
\* For a user message, which the handler never parses, the object holds the
\* details the sentence carries.
Text(kind, obj) == [kind |-> kind, json |-> obj]
\* the greeting "hi"
HiMessage == Text("hi", NoJson)
\* "book a haircut for Anna on 2025-09-13 at 10:00"
BookMessage == Text("book", Intent("Anna", "2025-09-13", "10:00"))
Messages == { HiMessage, BookMessage }
Replies ==
    { Text("prose", NoJson), Text("malformed", NoJson) }
        \cup { Text("json", b) : b \in FullIntents \cup PartialIntents }

\* What client.chat.completions.create does: it raises, or it returns a reply.
LLMOutcomes ==
    { [raised |-> TRUE, reply |-> Text("prose", NoJson)] }
        \cup { [raised |-> FALSE, reply |-> r] : r \in Replies }

\* The chat turns of the model, each a message with what the LLM does on it:
\* a booking request with every outcome, and the greeting "hi" with an LLM
\* that answers in prose or with a booking object.
ChatInputs ==
    { <<BookMessage, llm>> : llm \in LLMOutcomes }
        \cup { <<HiMessage, [raised |-> FALSE, reply |-> r]>> :
                 r \in { Text("prose", NoJson),
                         Text("json", Intent("Anna", "2025-09-13", "10:00")) } }

\* The body of a request to /api/slots: data.get("date"), data.get("time").
SlotFields(S) == S \cup {"", None}

\* The payment provider's answers to order creation, and the push bodies.
KlarnaStatusCodes == {200, 201, 403}
PushBodies == {"valid", "invalid", "empty"}

----------------------------------------------------------------------------
(* Responses *)

NoResponse ==
    [op |-> "none", code |-> 0, status |-> "", alternatives |-> <<>>, order_id |-> None,
     detail |-> "", provider_calls |-> 0]

Return(op, status) ==
    [NoResponse EXCEPT !.op = op, !.code = 200, !.status = status]

\* raise HTTPException(status_code = code, ...), or an exception no one catches
Raise(op, code) ==
    [NoResponse EXCEPT !.op = op, !.code = code, !.status = "error"]

----------------------------------------------------------------------------
(* Lists and dicts *)

\* x in list
In(x, list) == \E i \in 1..Len(list) : list[i] = x

\* list.remove(x): the list without the first x (ValueError when x is absent,
\* which the callers decide before they use this)
ListRemove(list, x) ==
    LET i == CHOOSE j \in 1..Len(list) :
                 list[j] = x /\ \A k \in 1..(j-1) : list[k] # x
    IN  SubSeq(list, 1, i-1) \o SubSeq(list, i+1, Len(list))

\* dict.get(key, [])
Get(dict, key) == IF key \in DOMAIN dict THEN dict[key] ELSE <<>>

\* dict[key] = value
Put(dict, key, value) ==
    [k \in DOMAIN dict \cup {key} |-> IF k = key THEN value ELSE dict[k]]

\* del dict[key]
Del(dict, key) == [k \in DOMAIN dict \ {key} |-> dict[k]]

\* not x, for a string or None
Falsy(x) == x = "" \/ x = None

----------------------------------------------------------------------------
(* Helpers of the source *)

check_availability(date_str, time) == In(time, Get(available_slots, date_str))

\* re.search(r"\{.*\}", reply, re.DOTALL)
Match(reply) == reply.kind \in {"json", "malformed"}

\* json.loads(match.group(0)) followed by booking["date"], booking["time"],
\* booking["customer_name"]: TRUE when one of them raises
ParseRaises(reply) ==
    \/ reply.kind # "json"
    \/ \E k \in {"date", "time", "customer_name"} : reply.json[k] = Absent

SeedSlots ==
    [d \in {"2025-09-13", "2025-09-14"} |->
        IF d = "2025-09-13" THEN <<"10:00", "11:00", "14:00">>
                            ELSE <<"09:00", "12:00", "15:00">>]

Tasks == {1, 2}
NoTask == [pc |-> "idle", message |-> HiMessage, reply |-> Text("prose", NoJson),
           status |-> ""]

Init ==
    /\ available_slots = SeedSlots
    /\ bookings = <<>>
    /\ conversation_history = <<>>
    /\ uuid_count = 0
    /\ response = NoResponse
    /\ tasks = [t \in Tasks |-> NoTask]
    /\ loop = 0

----------------------------------------------------------------------------
(* POST /chat, lines 212-262, as one step *)

UserTurn(message) == [role |-> "user", content |-> message]
\* a handler that logs the reply under another role
AssistantTurnBot(reply) == [role |-> "bot", content |-> reply]
AssistantTurn(reply) == [role |-> "assistant", content |-> reply]

\* lines 117-140: the system prompt, the history it is given, the user text
\* (the prompt embeds the slot catalogue and today's date, which no handler
\* reads back)
SystemTurn == [role |-> "system", content |-> Text("system", NoJson)]
build_messages(user_text, history) ==
    <<SystemTurn>> \o history \o <<UserTurn(user_text)>>

\* line 220, after line 215: the messages the handler sends to the LLM
LLMRequest(message) ==
    build_messages(message, Append(conversation_history, UserTurn(message)))

\* lines 247-249: available_slots[date_str].remove(time)
SlotsAfterReserve(date_str, time) ==
    [available_slots EXCEPT ![date_str] = ListRemove(@, time)]

\* line 248: str(uuid.uuid4()), a value no earlier call returned
NewUuid == uuid_count + 1

\* a handler that takes the slot and does not store the booking
BookingsAfterReserveLost(booking_id, booking) == bookings

\* line 249: bookings[booking_id] = {"booking": booking, "status": "pending"}
BookingsAfterReserve(booking_id, booking) ==
    Put(bookings, booking_id, [booking |-> booking, status |-> "pending"])

\* a handler that lists the seed catalogue instead of the current free times
UnavailableSeed(date_str, time) ==
    [Return("chat", "unavailable") EXCEPT !.alternatives = Get(SeedSlots, date_str)]

\* lines 233-244: the answer when the slot is not free
Unavailable(date_str, time) ==
    [Return("chat", "unavailable") EXCEPT
        !.alternatives = Get(available_slots, date_str)]

\* lines 251-254
Reserved(booking_id, date_str, time) == Return("chat", "reserved")

\* The status the handler returns on this outcome of the LLM call: the
\* branches of lines 217-262 (a ValueError or KeyError of line 247 is caught
\* at line 255 and ends at line 258, like an object that cannot be parsed)
ChatStatus(llm) ==
    IF llm.raised THEN "error"
    ELSE IF ~(Match(llm.reply) /\ ~ParseRaises(llm.reply)) THEN "chat"
    ELSE IF ~check_availability(llm.reply.json.date, llm.reply.json.time)
         THEN "unavailable"
    ELSE IF ~In(llm.reply.json.time, Get(available_slots, llm.reply.json.date))
         THEN "chat"
    ELSE "reserved"

chat_with_agent(message, llm) ==
    LET booking == llm.reply.json
        status == ChatStatus(llm)
    IN  /\ Len(conversation_history) + 2 <= MaxHistory
        /\ UNCHANGED <<tasks, loop>>
        \* line 215, and line 225 when the call returned
        /\ conversation_history' =
               IF llm.raised
               THEN Append(conversation_history, UserTurn(message))
               ELSE Append(Append(conversation_history, UserTurn(message)),
                           AssistantTurn(llm.reply))
        /\ IF status = "reserved"
           THEN /\ available_slots' = SlotsAfterReserve(booking.date, booking.time)
                /\ uuid_count' = NewUuid
                /\ bookings' = BookingsAfterReserve(NewUuid, booking)
                /\ response' = Reserved(NewUuid, booking.date, booking.time)
           ELSE /\ UNCHANGED <<available_slots, bookings, uuid_count>>
                /\ response' = IF status = "unavailable"
                               THEN Unavailable(booking.date, booking.time)
                               ELSE Return("chat", status)

----------------------------------------------------------------------------
(* POST /api/bookings/{id}/confirm, lines 166-171 *)

\* a handler that answers an unknown identifier with a success
NotFoundIgnored(op) == Return(op, "ok")

\* lines 168-169 and 175-176: raise HTTPException(404, "Booking not found")
NotFound(op) == [Raise(op, 404) EXCEPT !.detail = "Booking not found"]

\* a confirm that toggles the status
ConfirmedStatusToggle(old) == IF old = "confirmed" THEN "pending" ELSE "confirmed"

\* line 170: the status confirm writes, whatever the status was
ConfirmedStatus(old) == "confirmed"

confirm_booking(booking_id) ==
    /\ UNCHANGED <<available_slots, conversation_history, uuid_count, tasks, loop>>
    /\ IF booking_id \notin DOMAIN bookings
       THEN /\ response' = NotFound("confirm")
            /\ UNCHANGED bookings
       ELSE /\ bookings' = [bookings EXCEPT
                               ![booking_id].status = ConfirmedStatus(@)]
            /\ response' = Return("confirm", "confirmed")

(* DELETE /api/bookings/{id}, lines 173-184 *)

\* a cancel that forgets to free the slot
SlotsAfterCancelKept(date_str, time) == available_slots

\* lines 179-182: free the slot again
SlotsAfterCancel(date_str, time) ==
    IF date_str \in DOMAIN available_slots
    THEN [available_slots EXCEPT ![date_str] = Append(@, time)]
    ELSE Put(available_slots, date_str, <<time>>)

cancel_booking(booking_id) ==
    /\ UNCHANGED <<conversation_history, uuid_count, tasks, loop>>
    /\ IF booking_id \notin DOMAIN bookings
       THEN /\ response' = NotFound("cancel")
            /\ UNCHANGED <<available_slots, bookings>>
       ELSE LET b == bookings[booking_id].booking
            IN  /\ available_slots' = SlotsAfterCancel(b.date, b.time)
                /\ bookings' = Del(bookings, booking_id)
                /\ response' = Return("cancel", "cancelled")

----------------------------------------------------------------------------
(* POST /api/slots, lines 190-200, and DELETE /api/slots, lines 202-210 *)

\* an add that appends without looking for the time
SlotsAfterAddAlways(date_str, time) ==
    IF date_str \in DOMAIN available_slots
    THEN [available_slots EXCEPT ![date_str] = Append(@, time)]
    ELSE Put(available_slots, date_str, <<time>>)

\* lines 196-199
SlotsAfterAdd(date_str, time) ==
    LET withDate == IF date_str \notin DOMAIN available_slots
                    THEN Put(available_slots, date_str, <<>>)
                    ELSE available_slots
    IN  IF ~In(time, withDate[date_str])
        THEN [withDate EXCEPT ![date_str] = Append(@, time)]
        ELSE withDate

add_slot(date_str, time) ==
    /\ UNCHANGED <<bookings, conversation_history, uuid_count, tasks, loop>>
    /\ IF Falsy(date_str) \/ Falsy(time)
       THEN /\ response' = [Raise("add_slot", 400) EXCEPT
                               !.detail = "date and time required"]
            /\ UNCHANGED available_slots
       ELSE /\ available_slots' = SlotsAfterAdd(date_str, time)
            /\ response' = Return("add_slot", "added")

\* lines 208-209
SlotsAfterRemove(date_str, time) ==
    IF date_str \in DOMAIN available_slots /\ In(time, available_slots[date_str])
    THEN [available_slots EXCEPT ![date_str] = ListRemove(@, time)]
    ELSE available_slots

remove_slot(date_str, time) ==
    /\ UNCHANGED <<bookings, conversation_history, uuid_count, tasks, loop>>
    /\ IF Falsy(date_str) \/ Falsy(time)
       THEN /\ response' = [Raise("remove_slot", 400) EXCEPT
                               !.detail = "date and time required"]
            /\ UNCHANGED available_slots
       ELSE /\ available_slots' = SlotsAfterRemove(date_str, time)
            /\ response' = Return("remove_slot", "removed")

----------------------------------------------------------------------------
(* POST /pay/klarna, lines 264-271, and POST /klarna/push, lines 273-278 *)

\* lines 111-115: TRUE when create_klarna_order raises HTTPException(500)
create_klarna_order_raises(status_code) == status_code # 200

\* response.text of the provider's answer
KlarnaBody(status_code) ==
    IF status_code \in {200, 201} THEN "klarna order" ELSE "klarna error"

\* line 111 is the only call of the provider: one requests.post, in no loop
pay_with_klarna(status_code, order_id) ==
    /\ UNCHANGED <<available_slots, bookings, conversation_history, uuid_count,
                   tasks, loop>>
    /\ response' = IF create_klarna_order_raises(status_code)
                   THEN [Raise("pay", 500) EXCEPT
                            !.detail = KlarnaBody(status_code),
                            !.provider_calls = 1]
                   ELSE [Return("pay", "klarna_order_created") EXCEPT
                            !.order_id = order_id,
                            !.detail = "html_snippet",
                            !.provider_calls = 1]

\* line 276: TRUE when await request.json() raises (no handler catches it)
PushBodyRaises(body) == body # "valid"

klarna_push(klarna_order_id, body) ==
    /\ UNCHANGED <<available_slots, bookings, conversation_history, uuid_count,
                   tasks, loop>>
    /\ response' = IF PushBodyRaises(body)
                   THEN [Raise("push", 500) EXCEPT !.order_id = klarna_order_id]
                   ELSE [Return("push", "received") EXCEPT
                            !.order_id = klarna_order_id]

----------------------------------------------------------------------------
Next ==
    \/ \E in \in ChatInputs : chat_with_agent(in[1], in[2])
    \/ \E booking_id \in 1..MaxBookingId : confirm_booking(booking_id)
    \/ \E booking_id \in 1..MaxBookingId : cancel_booking(booking_id)
    \/ \E d \in SlotFields(InDates), t \in SlotFields(InTimes) : add_slot(d, t)
    \/ \E d \in SlotFields(InDates), t \in SlotFields(InTimes) : remove_slot(d, t)
    \/ \E status_code \in KlarnaStatusCodes, order_id \in OrderIds :
           pay_with_klarna(status_code, order_id)
    \/ \E id \in OrderIds \cup {None}, body \in PushBodies : klarna_push(id, body)

Spec == Init /\ [][Next]_vars

----------------------------------------------------------------------------
(* Two chat requests in flight: the handler statement by statement, under  *)
(* the event loop.  A task runs from where it is to its next await or to   *)
(* its return; only then does the loop pick another task.                  *)

\* a handler that awaits (an asynchronous call) between the check and the removal
YieldsBeforeReserve(pc) == pc = "reserve"

\* TRUE when the handler awaits before the statement at pc: chat_with_agent
\* (lines 212-262) has no await, the OpenAI client is the synchronous one
Yields(pc) == FALSE

\* the loop runs task t: it is the running task, or no task is running
Scheduled(t) == loop = t \/ loop = 0

\* after a step of t to pc: the loop is free at a return and at an await
LoopAfter(t, pc) == IF pc = "done" \/ Yields(pc) THEN 0 ELSE t

Finish(t, status) ==
    /\ tasks' = [tasks EXCEPT ![t].pc = "done", ![t].status = status]
    /\ loop' = LoopAfter(t, "done")

\* line 215
ChatAppend(t, message) ==
    /\ tasks[t].pc = "idle"
    /\ Scheduled(t)
    /\ conversation_history' = Append(conversation_history, UserTurn(message))
    /\ tasks' = [tasks EXCEPT ![t].pc = "llm", ![t].message = message]
    /\ loop' = LoopAfter(t, "llm")
    /\ UNCHANGED <<available_slots, bookings, uuid_count, response>>

\* lines 218-225, and lines 260-262 when the call raises
ChatComplete(t, llm) ==
    /\ tasks[t].pc = "llm"
    /\ Scheduled(t)
    /\ UNCHANGED <<available_slots, bookings, uuid_count>>
    /\ IF llm.raised
       THEN /\ Finish(t, "error")
            /\ response' = Return("chat", "error")
            /\ UNCHANGED conversation_history
       ELSE /\ conversation_history' =
                   Append(conversation_history, AssistantTurn(llm.reply))
            /\ tasks' = [tasks EXCEPT ![t].pc = "check", ![t].reply = llm.reply]
            /\ loop' = LoopAfter(t, "check")
            /\ UNCHANGED response

\* lines 227-244, and line 258 when nothing matches or the object is unusable
ChatCheck(t) ==
    LET reply == tasks[t].reply
        booking == reply.json
    IN  /\ tasks[t].pc = "check"
        /\ Scheduled(t)
        /\ UNCHANGED <<available_slots, bookings, uuid_count, conversation_history>>
        /\ IF Match(reply) /\ ~ParseRaises(reply)
           THEN IF ~check_availability(booking.date, booking.time)
                THEN /\ Finish(t, "unavailable")
                     /\ response' = Unavailable(booking.date, booking.time)
                ELSE /\ tasks' = [tasks EXCEPT ![t].pc = "reserve"]
                     /\ loop' = LoopAfter(t, "reserve")
                     /\ UNCHANGED response
           ELSE /\ Finish(t, "chat")
                /\ response' = Return("chat", "chat")

\* lines 247-254; when remove raises ValueError, lines 255-258
ChatReserve(t) ==
    LET booking == tasks[t].reply.json
    IN  /\ tasks[t].pc = "reserve"
        /\ Scheduled(t)
        /\ UNCHANGED conversation_history
        /\ IF check_availability(booking.date, booking.time)
           THEN /\ available_slots' = SlotsAfterReserve(booking.date, booking.time)
                /\ uuid_count' = NewUuid
                /\ bookings' = BookingsAfterReserve(NewUuid, booking)
                /\ Finish(t, "reserved")
                /\ response' = Reserved(NewUuid, booking.date, booking.time)
           ELSE /\ Finish(t, "chat")
                /\ response' = Return("chat", "chat")
                /\ UNCHANGED <<available_slots, bookings, uuid_count>>

NextConc ==
    \/ \E t \in Tasks, message \in Messages : ChatAppend(t, message)
    \/ \E t \in Tasks, llm \in LLMOutcomes : ChatComplete(t, llm)
    \/ \E t \in Tasks : ChatCheck(t)
    \/ \E t \in Tasks : ChatReserve(t)

SpecConc == Init /\ [][NextConc]_vars

----------------------------------------------------------------------------
(* Properties *)

\* the time is in the free list of the date
Free(d, t) == In(t, Get(available_slots, d))

\* the bookings of the store that hold (d, t)
Holders(d, t) ==
    { id \in DOMAIN bookings :
        bookings[id].booking.date = d /\ bookings[id].booking.time = t }

\* the dates and times the inventory, the store or the requests mention
AllDates == DOMAIN SeedSlots \cup InDates
AllTimes == InTimes \cup UNION { { SeedSlots[d][i] : i \in 1..Len(SeedSlots[d]) } :
                                   d \in DOMAIN SeedSlots }

\* how often the time is in the list
Count(list, x) == Cardinality({ i \in 1..Len(list) : list[i] = x })

\* the LLM returned an object with the three keys the handler reads
NamesPair(llm) == ~llm.raised /\ Match(llm.reply) /\ ~ParseRaises(llm.reply)

\* C1: no two bookings of the store hold the same (date, time).
C1_NoDoubleBooking ==
    \A d \in AllDates, t \in AllTimes : Cardinality(Holders(d, t)) <= 1

\* C2: a time is in the free list of a date if and only if no booking holds
\* that (date, time); stated for the slots the system knows, the pairs that
\* are in a free list or are held by a booking.
C2_FreeIffNotHeld ==
    \A d \in AllDates, t \in AllTimes :
        (Free(d, t) \/ Holders(d, t) # {}) => (Free(d, t) <=> Holders(d, t) = {})

\* C4: no free list holds the same time more than once.
C4_NoDuplicateFree ==
    \A d \in DOMAIN available_slots, t \in AllTimes : Count(available_slots[d], t) <= 1

\* C5: cancelling an existing booking, whatever its status, deletes the record
\* (and no other), puts the booking's time back into the free list of the
\* booking's date (no other list changes, no other time is added), and a chat
\* reservation for that pair then ends with status reserved.
C5_CancelRestores ==
    [][ \A id \in 1..MaxBookingId :
          (id \in DOMAIN bookings /\ cancel_booking(id)) =>
             LET b == bookings[id].booking
                 before == Get(available_slots, b.date)
             IN  /\ bookings' = Del(bookings, id)
                 /\ b.date \in DOMAIN available_slots'
                 /\ available_slots'[b.date] = Append(before, b.time)
                 /\ \A d \in DOMAIN available_slots' \ {b.date} :
                        d \in DOMAIN available_slots
                        /\ available_slots'[d] = available_slots[d]
                 /\ \A llm \in LLMOutcomes :
                        (/\ NamesPair(llm)
                         /\ llm.reply.json.date = b.date
                         /\ llm.reply.json.time = b.time) =>
                            ChatStatus(llm)' = "reserved"
      ]_vars

C5_Witness ==
    /\ response.op = "cancel" /\ response.status = "cancelled"
    /\ uuid_count >= 1 /\ bookings = <<>>
    /\ Count(available_slots["2025-09-13"], "10:00") = 1

\* C6: a chat turn whose intent has all fields and names a free (date, time)
\* ends with status reserved, takes that time out of that date's free list
\* (nothing else of the inventory changes) and stores one new booking, under
\* a fresh identifier, with status pending and the intent's fields.
C6_ReserveFreeSlot ==
    [][ \A in \in ChatInputs :
          LET llm == in[2]
              b == llm.reply.json
          IN  (/\ chat_with_agent(in[1], llm)
               /\ NamesPair(llm) /\ b.service # Absent
               /\ Free(b.date, b.time)) =>
                 /\ response'.status = "reserved"
                 /\ ~Free(b.date, b.time)'
                 /\ \A d \in AllDates, t \in AllTimes :
                        <<d, t>> # <<b.date, b.time>> => (Free(d, t)' <=> Free(d, t))
                 /\ \E id \in DOMAIN bookings' \ DOMAIN bookings :
                        /\ bookings' = Put(bookings, id,
                                           [booking |-> b, status |-> "pending"])
      ]_vars

\* C7: a chat turn whose intent names a (date, time) that is not free ends
\* with status unavailable, reports exactly the current free times of the
\* requested date (none when the date is unknown or has no free time) and
\* leaves the inventory and the booking store unchanged.
C7_UnavailableReportsFree ==
    [][ \A in \in ChatInputs :
          LET llm == in[2]
              b == llm.reply.json
          IN  (/\ chat_with_agent(in[1], llm)
               /\ NamesPair(llm)
               /\ ~Free(b.date, b.time)) =>
                 /\ response'.op = "chat" /\ response'.status = "unavailable"
                 /\ response'.alternatives = Get(available_slots, b.date)
                 /\ UNCHANGED <<available_slots, bookings>>
      ]_vars

\* the last chat turn was refused with alternatives, after a reservation had
\* taken the slot
C7_Witness ==
    /\ response.op = "chat" /\ response.status = "unavailable"
    /\ response.alternatives = <<"11:00", "14:00">>
    /\ Holders("2025-09-13", "10:00") # {}

\* C8: every change of an existing booking's status is pending->confirmed,
\* pending->paid or confirmed->paid, or leaves the status as it was.
AllowedStatusChanges ==
    { <<"pending", "confirmed">>, <<"pending", "paid">>, <<"confirmed", "paid">> }

C8_StatusMonotone ==
    [][ \A id \in DOMAIN bookings \cap DOMAIN bookings' :
          \/ bookings'[id].status = bookings[id].status
          \/ <<bookings[id].status, bookings'[id].status>> \in AllowedStatusChanges
      ]_vars

\* a booking was confirmed, and confirm was called on it again
C8_Witness ==
    /\ response.op = "confirm" /\ response.status = "confirmed"
    /\ \E id \in DOMAIN bookings : bookings[id].status = "confirmed"

\* C9: a push for an order, received after the payment was initiated, leaves
\* every booking that was pending in status paid.
C9_PushMarksPaid ==
    [][ \A order_id \in OrderIds :
          (/\ response.op = "pay" /\ response.order_id = order_id
           /\ klarna_push(order_id, "valid")) =>
             \A id \in DOMAIN bookings :
                 bookings[id].status = "pending" =>
                     id \in DOMAIN bookings' /\ bookings'[id].status = "paid"
      ]_vars

\* C10: the push handler acknowledges every push: whatever the order id and
\* the body, its response is the acknowledgement, never an error.
C10_PushAcknowledged ==
    response.op = "push" => response.code = 200 /\ response.status = "received"

\* the LLM call failed: it raised, or no JSON object can be parsed from its reply
LLMFailed(llm) == llm.raised \/ ~Match(llm.reply) \/ llm.reply.kind = "malformed"

\* C11: when the LLM call fails, a message that carries a date, a time and a
\* name for a free slot is still reserved, and the turn ends with no error.
C11_FallbackReserves ==
    [][ \A in \in ChatInputs :
          LET m == in[1].json
          IN  (/\ chat_with_agent(in[1], in[2])
               /\ LLMFailed(in[2])
               /\ m.customer_name \notin {Absent, ""}
               /\ m.date # Absent /\ m.time # Absent
               /\ Free(m.date, m.time)) =>
                 /\ response'.status = "reserved"
                 /\ Holders(m.date, m.time)' # {}
      ]_vars

\* C12: every booking of the store has a present, non-empty customer_name,
\* date and time.
C12_BookingsComplete ==
    \A id \in DOMAIN bookings :
        \A k \in {"customer_name", "date", "time"} :
            bookings[id].booking[k] \notin {Absent, "", None}

\* C13: confirm and cancel on an identifier that is not in the store fail
\* with NotFound and change neither the store nor the inventory.
C13_UnknownIdNotFound ==
    [][ \A id \in 1..MaxBookingId :
          (id \notin DOMAIN bookings /\ (confirm_booking(id) \/ cancel_booking(id))) =>
             /\ response'.code = 404 /\ response'.status = "error"
             /\ response'.op \in {"confirm", "cancel"}
             /\ UNCHANGED <<available_slots, bookings>>
      ]_vars

\* a cancel was refused after a booking had been made and cancelled, and the
\* slot is in the free list once
C13_Witness ==
    /\ response.op = "cancel" /\ response.code = 404
    /\ uuid_count = 1 /\ bookings = <<>>
    /\ Count(available_slots["2025-09-13"], "10:00") = 1

\* C14: payment initiation fails exactly when the provider's answer is not
\* 2xx: a non-2xx answer is an error carrying the provider's body, a 2xx
\* answer yields the order id and its checkout artifact; the provider is
\* called once, and bookings and slots are unchanged.
C14_PayFailsOnNon2xx ==
    [][ \A status_code \in KlarnaStatusCodes, order_id \in OrderIds :
          pay_with_klarna(status_code, order_id) =>
             /\ IF status_code \in 200..299
                THEN /\ response'.code = 200
                     /\ response'.status = "klarna_order_created"
                     /\ response'.order_id = order_id
                ELSE /\ response'.status = "error"
                     /\ response'.detail = KlarnaBody(status_code)
             /\ response'.provider_calls = 1
             /\ UNCHANGED <<available_slots, bookings>>
      ]_vars

\* C15: a chat turn whose message is a bare greeting ends with status
\* greeting, whatever the LLM answers, and changes neither the inventory nor
\* the booking store.
C15_GreetingShortCircuits ==
    [][ \A in \in ChatInputs :
          (chat_with_agent(in[1], in[2]) /\ in[1].kind = "hi") =>
             /\ response'.status = "greeting"
             /\ UNCHANGED <<available_slots, bookings>>
      ]_vars

\* C16: adding a (date, time) that is in the free list and removing one that
\* is not leave the inventory unchanged; an add or remove without a date or a
\* time is rejected with the inventory unchanged; no maintenance operation
\* changes the booking store.
C16_MaintenanceNoOps ==
    [][ /\ response'.op \in {"add_slot", "remove_slot"} => UNCHANGED bookings
        /\ response'.op = "add_slot" =>
              \A d \in SlotFields(InDates), t \in SlotFields(InTimes) :
                 /\ (Falsy(d) \/ Falsy(t)) =>
                       \/ response'.code = 400 /\ UNCHANGED available_slots
                       \/ ~add_slot(d, t)
                 /\ Free(d, t) =>
                       \/ response'.code = 200 /\ UNCHANGED available_slots
                       \/ ~add_slot(d, t)
        /\ response'.op = "remove_slot" =>
              \A d \in SlotFields(InDates), t \in SlotFields(InTimes) :
                 /\ (Falsy(d) \/ Falsy(t)) =>
                       \/ response'.code = 400 /\ UNCHANGED available_slots
                       \/ ~remove_slot(d, t)
                 /\ (~Falsy(d) /\ ~Falsy(t) /\ ~Free(d, t)) =>
                       \/ response'.code = 200 /\ UNCHANGED available_slots
                       \/ ~remove_slot(d, t)
      ]_vars

\* a remove was accepted and the inventory is the seed catalogue: the remove
\* found nothing to take out (a remove that takes an entry out never leaves
\* the seed catalogue behind)
C16_Witness ==
    /\ response.op = "remove_slot" /\ response.code = 200
    /\ available_slots = SeedSlots

\* C17: the conversation log is append-only: the log before a step is a
\* prefix of the log after it, every turn has role user or assistant, and a
\* chat turn appends the user's message and then at most one assistant reply.
C17_LogAppendOnly ==
    [][ /\ Len(conversation_history) <= Len(conversation_history')
        /\ SubSeq(conversation_history', 1, Len(conversation_history))
               = conversation_history
        /\ \A i \in 1..Len(conversation_history') :
               conversation_history'[i].role \in {"user", "assistant"}
        /\ \A in \in ChatInputs :
               chat_with_agent(in[1], in[2]) =>
                  LET n == Len(conversation_history)
                      added == Len(conversation_history') - n
                  IN  /\ added \in {1, 2}
                      /\ conversation_history'[n + 1] =
                             [role |-> "user", content |-> in[1]]
                      /\ added = 2 =>
                             conversation_history'[n + 2].role = "assistant"
      ]_vars

\* a failed LLM call left the user's message alone in the log, and the next
\* turn added a message and a reply
C17_Witness ==
    /\ Len(conversation_history) = 3
    /\ conversation_history[1].role = "user"
    /\ conversation_history[2].role = "user"
    /\ conversation_history[3].role = "assistant"

\* C18: a chat turn that does not end reserved changes neither the inventory
\* nor the booking store, and a chat turn that takes a time out of a free
\* list stores, in the same step, a new booking that holds that (date, time).
C18_NoRemovalWithoutBooking ==
    [][ \A in \in ChatInputs :
          chat_with_agent(in[1], in[2]) =>
             /\ response'.status # "reserved" =>
                    UNCHANGED <<available_slots, bookings>>
             /\ available_slots' # available_slots =>
                    \E id \in DOMAIN bookings' \ DOMAIN bookings :
                        LET b == in[2].reply.json
                        IN  /\ bookings' = Put(bookings, id,
                                               [booking |-> b, status |-> "pending"])
                            /\ Count(Get(available_slots', b.date), b.time)
                                   = Count(Get(available_slots, b.date), b.time) - 1
      ]_vars

\* the last chat turn got a reply whose object cannot be parsed, or lacks a
\* key, and ended with status chat
C18_Witness ==
    /\ response.op = "chat" /\ response.status = "chat"
    /\ Len(conversation_history) >= 2
    /\ LET last == conversation_history[Len(conversation_history)]
       IN  last.role = "assistant" /\ Match(last.content) /\ ParseRaises(last.content)

\* C19: the messages sent to the LLM are the system prompt, the turns recorded
\* before this chat turn, and the current user message once.
C19_MessageSentOnce ==
    [][ \A in \in ChatInputs :
          chat_with_agent(in[1], in[2]) =>
             LLMRequest(in[1]) =
                 <<SystemTurn>> \o conversation_history
                     \o <<[role |-> "user", content |-> in[1]]>>
      ]_vars

\* C20: confirm on an existing booking changes that booking's status and
\* nothing else of the store or the inventory, and the (date, time) of a
\* confirmed booking is not in the free list while the booking is stored.
C20_ConfirmChangesStatusOnly ==
    [][ /\ \A id \in 1..MaxBookingId :
              (id \in DOMAIN bookings /\ confirm_booking(id)) =>
                 /\ DOMAIN bookings' = DOMAIN bookings
                 /\ bookings' = [bookings EXCEPT ![id].status = bookings'[id].status]
                 /\ UNCHANGED available_slots
        /\ \A d \in AllDates, t \in AllTimes :
              (\E id \in DOMAIN bookings' :
                  /\ bookings'[id].status = "confirmed"
                  /\ bookings'[id].booking.date = d
                  /\ bookings'[id].booking.time = t) => ~Free(d, t)'
      ]_vars

----------------------------------------------------------------------------
(* Properties of SpecConc *)

\* both requests were answered by the LLM with an object naming (d, t)
BothName(d, t) ==
    \A k \in Tasks :
        /\ tasks[k].pc \in {"check", "reserve", "done"}
        /\ Match(tasks[k].reply) /\ ~ParseRaises(tasks[k].reply)
        /\ tasks[k].reply.json.date = d /\ tasks[k].reply.json.time = t

\* C3: of two chat requests in flight for the same free (date, time), exactly
\* one ends reserved and stores a booking and the other ends unavailable; no
\* task is suspended between its availability check and its removal.
C3_OneReservation ==
    /\ \A k \in Tasks : tasks[k].pc = "reserve" => loop = k
    /\ \A d \in AllDates, t \in AllTimes :
          (/\ In(t, Get(SeedSlots, d))
           /\ BothName(d, t)
           /\ \A k \in Tasks : tasks[k].pc = "done") =>
             /\ \E k \in Tasks :
                   /\ tasks[k].status = "reserved"
                   /\ \A j \in Tasks \ {k} : tasks[j].status = "unavailable"
             /\ Cardinality(Holders(d, t)) = 1
             /\ ~Free(d, t)

C3_Witness ==
    /\ BothName("2025-09-13", "10:00")
    /\ tasks[1].status = "unavailable" /\ tasks[2].status = "reserved"
    /\ Cardinality(Holders("2025-09-13", "10:00")) = 1

====
